---- MODULE Spec2Model ----
(***************************************************************************)
(* Tendly Search: the Home page's search interaction (AI search, then the  *)
(* keyword fallback), the result envelopes of TenderSearchAgent,           *)
(* SQLChatAssistant and SimpleSearchAgent, and the fallback's rendering.   *)
(*                                                                         *)
(* Text is a sequence of one-character strings, so that lower(), split(),  *)
(* strip() and the substring test of Python's `in` are computed.           *)
(***************************************************************************)
EXTENDS Integers, Sequences, FiniteSets, TLC

\* ------------------------------------------------------------------ bounds
\* Longest question, in words of Vocabulary.
MaxWords == 2
\* Most rows a drawn fallback result holds.
MaxRows == 2

\* ------------------------------------------------------- program constants
\* Home.py:227..242, the limit passed to every SimpleSearchAgent method.
FallbackLimit == 20
\* Home.py:200, the limit passed to search_tenders.
AiLimit == 50
\* Home.py:231, `min_value or 100000`.
DefaultHighValue == 100000
\* search_recent_tenders(days=30), simple_search.py:131.
DefaultRecentDays == 30
\* db_util.py:62, execute_query(self, query): one argument besides self.
ExecuteQueryArity == 1

\* -------------------------------------------------------------------- text
Space == " "

UpperToLower ==
    [c \in {"A","D","E","H","I","L","O","R","S","T","U","C"} |->
        CASE c = "A" -> "a" [] c = "D" -> "d" [] c = "E" -> "e"
          [] c = "H" -> "h" [] c = "I" -> "i" [] c = "L" -> "l"
          [] c = "O" -> "o" [] c = "R" -> "r" [] c = "S" -> "s"
          [] c = "T" -> "t" [] c = "U" -> "u" [] c = "C" -> "c"]

\* str.lower(), character by character.
LowerChar(c) == IF c \in DOMAIN UpperToLower THEN UpperToLower[c] ELSE c

Lower(s) == [i \in 1..Len(s) |-> LowerChar(s[i])]

\* Python's `needle in hay` on strings: needle occurs as a contiguous run.
Contains(hay, needle) ==
    \E i \in 0..(Len(hay) - Len(needle)) :
        SubSeq(hay, i + 1, i + Len(needle)) = needle

\* any(word in text for word in words)
AnyIn(words, text) == \E w \in words : Contains(text, w)

RECURSIVE SplitFrom(_, _, _)
\* str.split(): the maximal runs of non-whitespace, in order.
\* cur is the token being read, i the next position.
SplitFrom(s, i, cur) ==
    IF i > Len(s)
    THEN IF cur = <<>> THEN <<>> ELSE <<cur>>
    ELSE IF s[i] = Space
         THEN IF cur = <<>> THEN SplitFrom(s, i + 1, <<>>)
              ELSE <<cur>> \o SplitFrom(s, i + 1, <<>>)
         ELSE SplitFrom(s, i + 1, Append(cur, s[i]))

Split(s) == SplitFrom(s, 1, <<>>)

\* bool(s): some character, blank or not.
StripNonEmpty_NoStrip(s) == s # <<>>

\* bool(s.strip()): some character is not whitespace.
StripNonEmpty(s) == \E i \in 1..Len(s) : s[i] # Space

RECURSIVE Digits(_)
\* f"{n}" of a non-negative int: its decimal digits.
Digits(n) ==
    LET d == <<"0","1","2","3","4","5","6","7","8","9">>[(n % 10) + 1]
    IN  IF n < 10 THEN <<d>> ELSE Append(Digits(n \div 10), d)

\* ------------------------------------------------------- trigger keywords
kw_construction == <<"c","o","n","s","t","r","u","c","t","i","o","n">>
kw_ehitus == <<"e","h","i","t","u","s">>
kw_building == <<"b","u","i","l","d","i","n","g">>
kw_harjumaa == <<"h","a","r","j","u","m","a","a">>
kw_harju == <<"h","a","r","j","u">>
kw_tallinn == <<"t","a","l","l","i","n","n">>
kw_high_value == <<"h","i","g","h"," ","v","a","l","u","e">>
kw_expensive == <<"e","x","p","e","n","s","i","v","e">>
kw_large == <<"l","a","r","g","e">>
kw_recent == <<"r","e","c","e","n","t">>
kw_new == <<"n","e","w">>
kw_latest == <<"l","a","t","e","s","t">>
kw_it == <<"i","t">>
kw_software == <<"s","o","f","t","w","a","r","e">>
kw_tarkvara == <<"t","a","r","k","v","a","r","a">>
kw_technology == <<"t","e","c","h","n","o","l","o","g","y">>
kw_active == <<"a","c","t","i","v","e">>
kw_open == <<"o","p","e","n">>
kw_current == <<"c","u","r","r","e","n","t">>

\* Home.py:226..236, the word lists of the if/elif chain.
ConstructionWords == {kw_construction, kw_ehitus, kw_building}
LocationWords == {kw_harjumaa, kw_harju, kw_tallinn}
HighValueWords == {kw_high_value, kw_expensive, kw_large}
RecentWords == {kw_recent, kw_new, kw_latest}
ItWords == {kw_it, kw_software, kw_tarkvara, kw_technology}
ActiveWords == {kw_active, kw_open, kw_current}

\* The SimpleSearchAgent methods, in the order the chain tests them.
MethodOrder ==
    << "search_construction_tenders", "search_harjumaa_tenders",
       "search_high_value_tenders", "search_recent_tenders",
       "search_it_tenders", "search_active_tenders", "search_by_keyword" >>

\* The word list that guards each branch (none for the else branch).
TriggerWords(method) ==
    CASE method = "search_construction_tenders" -> ConstructionWords
      [] method = "search_harjumaa_tenders" -> LocationWords
      [] method = "search_high_value_tenders" -> HighValueWords
      [] method = "search_recent_tenders" -> RecentWords
      [] method = "search_it_tenders" -> ItWords
      [] method = "search_active_tenders" -> ActiveWords
      [] OTHER -> {}

\* ------------------------------------------------------------ user inputs
w_construction == <<"c","o","n","s","t","r","u","c","t","i","o","n">>
w_Tallinn == <<"T","a","l","l","i","n","n">>
w_with == <<"w","i","t","h">>
w_renewal == <<"r","e","n","e","w","a","l">>
w_high == <<"h","i","g","h">>
w_value == <<"v","a","l","u","e">>
w_tenders == <<"t","e","n","d","e","r","s">>
w_Roads == <<"R","o","a","d","s">>
loc_Tartu == <<"T","a","r","t","u">>

Vocabulary ==
    { w_construction, w_Tallinn, w_with, w_renewal, w_high, w_value, w_tenders,
      w_Roads }

RECURSIVE Join(_)
\* The words of ws separated by single spaces.
Join(ws) ==
    IF ws = <<>> THEN <<>>
    ELSE IF Len(ws) = 1 THEN ws[1]
    ELSE ws[1] \o <<Space>> \o Join(Tail(ws))

WordSeqs == UNION { [1..n -> Vocabulary] : n \in 0..MaxWords }

\* One of the questions the page suggests (Home.py:171).
q_show_me_IT_tenders == <<"s","h","o","w"," ","m","e"," ","I","T"," ","t","e","n","d","e","r","s">>

\* search_util.py:255..294: the predefined searches, title and query.
get_predefined_searches ==
    << 
       [title |-> "Construction Tenders",
        query |-> <<"s","h","o","w"," ","m","e"," ","c","o","n","s","t","r","u","c","t","i","o","n"," ","t","e","n","d","e","r","s">>],
       [title |-> "Tenders in Harjumaa",
        query |-> <<"t","e","n","d","e","r","s"," ","i","n"," ","H","a","r","j","u","m","a","a">>],
       [title |-> "Recent Tenders",
        query |-> <<"s","h","o","w"," ","m","e"," ","t","h","e"," ","m","o","s","t"," ","r","e","c","e","n","t"," ","t","e","n","d","e","r","s">>],
       [title |-> "High Value Tenders",
        query |-> <<"s","h","o","w"," ","m","e"," ","t","e","n","d","e","r","s"," ","w","i","t","h"," ","h","i","g","h","e","s","t"," ","v","a","l","u","e">>],
       [title |-> "IT Tenders",
        query |-> <<"s","h","o","w"," ","m","e"," ","I","T"," ","r","e","l","a","t","e","d"," ","t","e","n","d","e","r","s">>],
       [title |-> "Active Tenders",
        query |-> <<"s","h","o","w"," ","m","e"," ","a","c","t","i","v","e"," ","t","e","n","d","e","r","s"," ","t","h","a","t"," ","a","r","e"," ","s","t","i","l","l"," ","o","p","e","n">>] >>

\* What the user can have in the search box: nothing, blanks, up to
\* MaxWords words, possibly after a leading blank, or a suggested question.
Questions ==
    { Join(ws) : ws \in WordSeqs } \cup { <<Space>>, q_show_me_IT_tenders }
      \cup { <<Space>> \o ws[1] : ws \in { v \in WordSeqs : Len(v) = 1 } }

MinValues == {0, 50000}
Locations == {<<>>, loc_Tartu}
TimeFilters == {"All time", "Last 7 days", "Last 30 days", "Last 90 days"}

\* ------------------------------------------------------------ Python values
None == [kind |-> "None"]
PyInt(n) == [kind |-> "int", val |-> n]
PyStr(s) == [kind |-> "str", val |-> s]
\* The agent's answer, a string of characters.
Text(t) == [kind |-> "text", val |-> t]
\* A pandas DataFrame, as the sequence of its rows.
DataFrame(rows) == [kind |-> "DataFrame", val |-> rows]

\* How a call ends: it returns a value or raises an exception.
Return(v) == [raised |-> FALSE, value |-> v]
Raise(e) == [raised |-> TRUE, exc |-> e]

\* str(e): the exception's message.
StrOfException(e) == e.msg

\* dict.get(key): the value, or None for a key the dict does not hold.
Get(d, key) == IF key \in DOMAIN d THEN d[key] ELSE None

\* dict.get(key, default)
GetOr(d, key, default) == IF key \in DOMAIN d THEN d[key] ELSE default

\* bool(v) of the values an envelope holds.
Truthy(v) ==
    CASE v.kind = "None" -> FALSE
      [] v.kind = "int" -> v.val # 0
      [] v.kind = "str" -> v.val # ""
      [] v.kind = "text" -> v.val # <<>>
      [] v.kind = "DataFrame" -> Len(v.val) > 0

\* -------------------------------------------------- the external collaborators
txt_SELECT == <<"S","E","L","E","C","T">>
txt_ok == <<"o","k">>

\* agent.run(prompt) of the LangChain SQL agent: the text it answers, or the
\* exception it raises.
AgentAnswers == { <<>>, txt_ok, txt_SELECT \o <<Space>> \o txt_ok }
AgentErrors ==
    { [type |-> "TimeoutError", msg |-> "Request timed out"],
      [type |-> "OutputParserException", msg |-> "Could not parse LLM output"] }
AuthenticationError == [type |-> "AuthenticationError", msg |-> "No API key provided"]

\* What agent.run can do: without a credential every call is refused.
AgentRuns(key) ==
    IF key
    THEN { Return(a) : a \in AgentAnswers } \cup { Raise(e) : e \in AgentErrors }
    ELSE { Raise(AuthenticationError) }

\* The rows of estonian_tenders a query can return, by estimated_value
\* (None is SQL NULL).
EstimatedValues == { None, PyInt(0), PyInt(120000) }
TenderRows == { [estimated_value |-> v] : v \in EstimatedValues }
RowSeqs == UNION { [1..n -> TenderRows] : n \in 0..MaxRows }
OperationalError == [type |-> "OperationalError", msg |-> "connection refused"]
ProgrammingError == [type |-> "ProgrammingError", msg |-> "syntax error"]

\* pd.read_sql(query, engine): the rows, or the driver's error.
ReadSqlRuns ==
    { Return(r) : r \in RowSeqs }
      \cup { Raise(OperationalError), Raise(ProgrammingError) }

\* The answers a page run tells apart: no row, some row, an error.
PageReadSqlRuns ==
    { Return(<<>>), Return(<< [estimated_value |-> PyInt(120000)] >>),
      Raise(OperationalError) }

\* ------------------------------------------------------------- db_util.py
TypeError ==
    [type |-> "TypeError",
     msg |-> "execute_query() takes 2 positional arguments but 3 were given"]

\* DatabaseUtil.execute_query(self, query): args are the positional
\* arguments of the call; Python binds them before the body runs.
execute_query(args, read_sql) ==
    IF Len(args) # ExecuteQueryArity
    THEN Raise(TypeError)
    ELSE read_sql

\* ---------------------------------------------------------- search_util.py
\* search_util.py:98..104, the text search_tenders hands to agent.run: the
\* query on a line of its own, then the instruction block with the limit.
txt_prompt_head == <<"\n"," "," "," "," "," "," "," "," "," "," "," "," ">>
txt_prompt_limit == <<"\n"," "," "," "," "," "," "," "," "," "," "," "," ","\n"," "," "," "," "," "," "," "," "," "," "," "," ","P","l","e","a","s","e"," ","l","i","m","i","t"," ","r","e","s","u","l","t","s"," ","t","o"," ">>
txt_prompt_tail == <<" ","i","t","e","m","s"," ","a","n","d"," ","i","n","c","l","u","d","e"," ","t","h","e"," ","m","o","s","t"," ","r","e","l","e","v","a","n","t"," ","i","n","f","o","r","m","a","t","i","o","n",".","\n"," "," "," "," "," "," "," "," "," "," "," "," ","F","o","r","m","a","t"," ","t","h","e"," ","r","e","s","p","o","n","s","e"," ","t","o"," ","s","h","o","w"," ","k","e","y"," ","t","e","n","d","e","r"," ","d","e","t","a","i","l","s"," ","l","i","k","e"," ","t","i","t","l","e",","," ","o","r","g","a","n","i","z","a","t","i","o","n",","," ","v","a","l","u","e",","," ","a","n","d"," ","d","e","a","d","l","i","n","e",".","\n"," "," "," "," "," "," "," "," "," "," "," "," ">>

agent_prompt(query, limit) ==
    txt_prompt_head \o query \o txt_prompt_limit \o Digits(limit) \o txt_prompt_tail

\* search_tenders without its except branch.
search_tenders_Uncaught(query, limit, run) ==
    IF run.raised
    THEN run
    ELSE Return([success |-> TRUE, results |-> Text(run.value), query |-> query,
                 count |-> PyStr(IF Contains(run.value, txt_SELECT)
                                 THEN "Multiple results" ELSE "1"),
                 error |-> None])

\* TenderSearchAgent.search_tenders(query, limit); run is what agent.run does.
search_tenders(query, limit, run) ==
    IF run.raised
    THEN Return([success |-> FALSE, results |-> None, query |-> query,
                 count |-> PyInt(0), error |-> PyStr(StrOfException(run.exc))])
    ELSE Return([success |-> TRUE, results |-> Text(run.value), query |-> query,
                 count |-> PyStr(IF Contains(run.value, txt_SELECT)
                               THEN "Multiple results" ELSE "1"),
                 error |-> None])

\* ------------------------------------------------------------- sql_chat.py
\* A chat_with_database without its except branch.
chat_with_database_Uncaught(question, schema, run) ==
    IF schema.raised THEN schema
    ELSE IF run.raised THEN run
    ELSE Return([success |-> TRUE, answer |-> Text(run.value),
                 question |-> question, error |-> None])

\* SQLChatAssistant.chat_with_database(question): schema is what
\* get_database_schema() does while the prompt is built, run what agent.run
\* does afterwards.
chat_with_database(question, schema, run) ==
    IF schema.raised
    THEN Return([success |-> FALSE, answer |-> None, question |-> question,
                 error |-> PyStr(StrOfException(schema.exc))])
    ELSE IF run.raised
    THEN Return([success |-> FALSE, answer |-> None, question |-> question,
                 error |-> PyStr(StrOfException(run.exc))])
    ELSE Return([success |-> TRUE, answer |-> Text(run.value),
                 question |-> question, error |-> None])

\* ---------------------------------------------------------- simple_search.py
\* One disjunct of a WHERE clause; rhs "%s" is a bind hole.
Pred(lhs, op, rhs) == [lhs |-> lhs, op |-> op, rhs |-> rhs]

ConstructionSql ==
    [from |-> "estonian_tenders",
     where |-> << Pred("LOWER(title)", "LIKE", "'%ehitus%'"),
                  Pred("LOWER(title)", "LIKE", "'%construction%'"),
                  Pred("LOWER(title)", "LIKE", "'%building%'"),
                  Pred("LOWER(description)", "LIKE", "'%ehitus%'"),
                  Pred("LOWER(description)", "LIKE", "'%construction%'"),
                  Pred("LOWER(description)", "LIKE", "'%building%'") >>,
     order_by |-> "deadline DESC", limit |-> "%s"]

HarjumaaSql ==
    [from |-> "estonian_tenders",
     where |-> << Pred("LOWER(location)", "LIKE", "'%harjumaa%'"),
                  Pred("LOWER(location)", "LIKE", "'%harju%'"),
                  Pred("LOWER(organization_name)", "LIKE", "'%tallinn%'") >>,
     order_by |-> "deadline DESC", limit |-> "%s"]

HighValueSql ==
    [from |-> "estonian_tenders",
     where |-> << Pred("estimated_value", ">=", "%s") >>,
     order_by |-> "estimated_value DESC", limit |-> "%s"]

RecentSql ==
    [from |-> "estonian_tenders",
     where |-> << Pred("published_date", ">=",
                       "CURRENT_DATE - INTERVAL '%s days'") >>,
     order_by |-> "published_date DESC", limit |-> "%s"]

ItSql ==
    [from |-> "estonian_tenders",
     where |-> << Pred("LOWER(title)", "LIKE", "'%it%'"),
                  Pred("LOWER(title)", "LIKE", "'%software%'"),
                  Pred("LOWER(title)", "LIKE", "'%tarkvara%'"),
                  Pred("LOWER(title)", "LIKE", "'%infotehnoloogia%'"),
                  Pred("LOWER(description)", "LIKE", "'%software%'"),
                  Pred("LOWER(description)", "LIKE", "'%tarkvara%'"),
                  Pred("LOWER(description)", "LIKE", "'%infotehnoloogia%'") >>,
     order_by |-> "deadline DESC", limit |-> "%s"]

ActiveSql ==
    [from |-> "estonian_tenders",
     where |-> << Pred("deadline", ">=", "CURRENT_DATE") >>,
     order_by |-> "deadline ASC", limit |-> "%s"]

KeywordSql ==
    [from |-> "estonian_tenders",
     where |-> << Pred("LOWER(title)", "LIKE", "%s"),
                  Pred("LOWER(description)", "LIKE", "%s"),
                  Pred("LOWER(organization_name)", "LIKE", "%s") >>,
     order_by |-> "deadline DESC", limit |-> "%s"]

\* search_by_keyword: search_term = f"%{keyword.lower()}%"
SearchTerm(keyword) == <<"%">> \o Lower(keyword) \o <<"%">>

\* The positional arguments each method passes to db_util.execute_query:
\* the statement and the tuple of bind values. call is the method called
\* and its keyword arguments.
QueryArgs(call) ==
    LET k == call.kwargs IN
    CASE call.method = "search_construction_tenders" ->
           << ConstructionSql, << PyInt(k.limit) >> >>
      [] call.method = "search_harjumaa_tenders" ->
           << HarjumaaSql, << PyInt(k.limit) >> >>
      [] call.method = "search_high_value_tenders" ->
           << HighValueSql, << PyInt(k.min_value), PyInt(k.limit) >> >>
      [] call.method = "search_recent_tenders" ->
           << RecentSql, << PyInt(k.days), PyInt(k.limit) >> >>
      [] call.method = "search_it_tenders" ->
           << ItSql, << PyInt(k.limit) >> >>
      [] call.method = "search_active_tenders" ->
           << ActiveSql, << PyInt(k.limit) >> >>
      [] call.method = "search_by_keyword" ->
           << KeywordSql, << Text(SearchTerm(k.keyword)), Text(SearchTerm(k.keyword)),
                             Text(SearchTerm(k.keyword)), PyInt(k.limit) >> >>

\* The "query_type" each method reports.
QueryType(method) ==
    CASE method = "search_construction_tenders" -> "construction_tenders"
      [] method = "search_harjumaa_tenders" -> "harjumaa_tenders"
      [] method = "search_high_value_tenders" -> "high_value_tenders"
      [] method = "search_recent_tenders" -> "recent_tenders"
      [] method = "search_it_tenders" -> "it_tenders"
      [] method = "search_active_tenders" -> "active_tenders"
      [] method = "search_by_keyword" -> "keyword_search"

\* The dict a method returns after execute_query returned rows.
SuccessEnvelope(call, rows) ==
    LET e == [success |-> TRUE, results |-> DataFrame(rows),
              count |-> PyInt(Len(rows)), query_type |-> QueryType(call.method)]
    IN  IF call.method = "search_by_keyword"
        THEN e @@ [keyword |-> Text(call.kwargs.keyword)]
        ELSE e

\* The dict the except branch builds.
FailureDict(e) ==
    [success |-> FALSE, error |-> PyStr(StrOfException(e)), results |-> None]

\* An except branch that raises the exception again.
ExceptEnvelope_Reraise(e) == Raise(e)

\* The except branch every method ends with: return the failure dict.
ExceptEnvelope(e) == Return(FailureDict(e))

\* A SimpleSearchAgent search method: try: execute_query(query, params) and
\* wrap the rows; except Exception: wrap the message. read_sql is what the
\* database would answer.
SimpleSearch(call, read_sql) ==
    LET r == execute_query(QueryArgs(call), read_sql)
    IN  IF r.raised
        THEN ExceptEnvelope(r.exc)
        ELSE Return(SuccessEnvelope(call, r.value))

\* ------------------------------------------------- construction of the agents
ValueError == [type |-> "ValueError", msg |-> "DB_URL environment variable is required"]
MissingKeyError == [type |-> "ValidationError", msg |-> "Did not find openai_api_key"]

\* What connecting to the database does (inspect(engine), SQLDatabase.from_uri).
ConnectRuns == { Return("connected"), Raise(OperationalError) }

\* What ChatOpenAI(openai_api_key=os.getenv("OPENAI_API_KEY")) does: the
\* library is not part of the repository; without a key it may refuse to
\* construct the client or defer the failure to the first request.
ChatOpenAIRuns(key) ==
    IF key THEN { Return("llm") } ELSE { Return("llm"), Raise(MissingKeyError) }

\* A DatabaseUtil.__init__ that goes straight to create_engine.
DatabaseUtilInit_NoCheck(db_url, connect) ==
    IF connect.raised THEN Raise(connect.exc) ELSE Return("DatabaseUtil")

\* DatabaseUtil.__init__
DatabaseUtilInit(db_url, connect) ==
    IF ~db_url THEN Raise(ValueError)
    ELSE IF connect.raised THEN Raise(connect.exc)
    ELSE Return("DatabaseUtil")

\* TenderSearchAgent.__init__: DB_URL, then ChatOpenAI, then
\* SQLDatabase.from_uri and its own DatabaseUtil.
TenderSearchAgentInit(db_url, llm, connect) ==
    IF ~db_url THEN Raise(ValueError)
    ELSE IF llm.raised THEN Raise(llm.exc)
    ELSE IF connect.raised THEN Raise(connect.exc)
    ELSE LET d == DatabaseUtilInit(db_url, connect)
         IN  IF d.raised THEN d ELSE Return("TenderSearchAgent")

\* SimpleSearchAgent.__init__: self.db_util = DatabaseUtil()
SimpleSearchAgentInit(db_url, connect) ==
    LET d == DatabaseUtilInit(db_url, connect)
    IN  IF d.raised THEN d ELSE Return("SimpleSearchAgent")

\* SQLChatAssistant.__init__: DB_URL, then ChatOpenAI, then
\* SQLDatabase.from_uri and its own DatabaseUtil.
SQLChatAssistantInit(db_url, llm, connect) ==
    IF ~db_url THEN Raise(ValueError)
    ELSE IF llm.raised THEN Raise(llm.exc)
    ELSE IF connect.raised THEN Raise(connect.exc)
    ELSE LET d == DatabaseUtilInit(db_url, connect)
         IN  IF d.raised THEN d ELSE Return("SQLChatAssistant")

\* The classes that read DB_URL when constructed.
Classes == { "DatabaseUtil", "TenderSearchAgent", "SimpleSearchAgent", "SQLChatAssistant" }

\* cls() with the environment and the collaborators' behaviour given.
Construct(cls, db_url, llm, connect) ==
    CASE cls = "DatabaseUtil" -> DatabaseUtilInit(db_url, connect)
      [] cls = "TenderSearchAgent" -> TenderSearchAgentInit(db_url, llm, connect)
      [] cls = "SimpleSearchAgent" -> SimpleSearchAgentInit(db_url, connect)
      [] cls = "SQLChatAssistant" -> SQLChatAssistantInit(db_url, llm, connect)

\* The engines a constructor has created when it ends: create_engine of
\* DatabaseUtil (db_util.py:25) and SQLDatabase.from_uri of the two agents
\* (search_util.py:38, sql_chat.py:38), each reached only after the lines
\* before it.
EnginesCreated(cls, db_url, llm, connect) ==
    IF cls \in {"DatabaseUtil", "SimpleSearchAgent"}
    THEN IF ~db_url THEN 0 ELSE 1
    ELSE IF ~db_url \/ llm.raised THEN 0
         ELSE IF connect.raised THEN 1 ELSE 2

\* TenderSearchAgent.get_tender_statistics: its queries call execute_query
\* with the statement alone; total is 0 for an empty result, and any
\* exception gives the empty dict.
get_tender_statistics(read_sql) ==
    LET r == execute_query(<< "SELECT COUNT(*) as total FROM estonian_tenders" >>,
                           read_sql)
    IN  IF r.raised THEN [k \in {} |-> None]
        ELSE [total_tenders |-> IF r.value # <<>> THEN r.value[1].total ELSE PyInt(0)]

\* ------------------------------------- statements built as f-strings
\* The pieces of the statement texts of search_util.py:128..204 and
\* db_util.py:59 (the select list and the join are shortened to "et.*").
sql_select_et == <<"S","E","L","E","C","T"," ","e","t",".","*"," ","F","R","O","M"," ","e","s","t","o","n","i","a","n","_","t","e","n","d","e","r","s"," ","e","t"," ">>
sql_where_nuts == <<"W","H","E","R","E"," ","L","O","W","E","R","(","e","t","d",".","n","u","t","s","_","c","o","d","e",")"," ","L","I","K","E"," ","'","%">>
sql_or_location_info == <<"%","'"," ","O","R"," ","L","O","W","E","R","(","e","t","d",".","l","o","c","a","t","i","o","n","_","a","d","d","i","t","i","o","n","a","l","_","i","n","f","o",")"," ","L","I","K","E"," ","'","%">>
sql_or_authority == <<"%","'"," ","O","R"," ","L","O","W","E","R","(","e","t",".","c","o","n","t","r","a","c","t","i","n","g","_","a","u","t","h","o","r","i","t","y","_","n","a","m","e",")"," ","L","I","K","E"," ","'","%">>
sql_where_authority == <<"W","H","E","R","E"," ","L","O","W","E","R","(","e","t",".","c","o","n","t","r","a","c","t","i","n","g","_","a","u","t","h","o","r","i","t","y","_","n","a","m","e",")"," ","L","I","K","E"," ","'","%">>
sql_close_like == <<"%","'">>
sql_where_created == <<"W","H","E","R","E"," ","e","t",".","c","r","e","a","t","e","d","_","a","t"," ",">","="," ","C","U","R","R","E","N","T","_","D","A","T","E"," ","-"," ","I","N","T","E","R","V","A","L"," ","'">>
sql_days == <<" ","d","a","y","s","'">>
sql_where_cost == <<"W","H","E","R","E"," ","e","t","d",".","e","s","t","i","m","a","t","e","d","_","c","o","s","t"," ",">","="," ">>
sql_where_construction == <<"W","H","E","R","E"," ","L","O","W","E","R","(","e","t",".","p","r","o","c","u","r","e","m","e","n","t","_","n","a","m","e",")"," ","L","I","K","E"," ","'","%","c","o","n","s","t","r","u","c","t","i","o","n","%","'">>
sql_order_created == <<" ","O","R","D","E","R"," ","B","Y"," ","e","t",".","c","r","e","a","t","e","d","_","a","t"," ","D","E","S","C">>
sql_order_cost == <<" ","O","R","D","E","R"," ","B","Y"," ","e","t","d",".","e","s","t","i","m","a","t","e","d","_","c","o","s","t"," ","D","E","S","C">>
sql_limit == <<" ","L","I","M","I","T"," ">>
sql_select_all == <<"S","E","L","E","C","T"," ","*"," ","F","R","O","M"," ">>
loc_injection == <<"x","'"," ","O","R"," ","'","1","'","=","'","1">>
tbl_estonian_tenders == <<"e","s","t","o","n","i","a","n","_","t","e","n","d","e","r","s">>

\* limit: int = 10 of the TenderSearchAgent query methods.
HelperLimit == 10
\* get_sample_data(table_name, limit: int = 5)
SampleLimit == 5

\* The f-string each method evaluates: the caller's values become part of
\* the statement text. call is the method and its argument.
HelperQuery(call) ==
    LET tail == sql_limit \o Digits(call.limit) IN
    CASE call.method = "get_construction_tenders" ->
           sql_select_et \o sql_where_construction \o sql_order_created \o tail
      [] call.method = "get_tenders_by_location" ->
           sql_select_et \o sql_where_nuts \o Lower(call.arg)
             \o sql_or_location_info \o Lower(call.arg)
             \o sql_or_authority \o Lower(call.arg) \o sql_close_like
             \o sql_order_created \o tail
      [] call.method = "get_recent_tenders" ->
           sql_select_et \o sql_where_created \o Digits(call.arg) \o sql_days
             \o sql_order_created \o tail
      [] call.method = "get_high_value_tenders" ->
           sql_select_et \o sql_where_cost \o Digits(call.arg)
             \o sql_order_cost \o tail
      [] call.method = "search_by_organization" ->
           sql_select_et \o sql_where_authority \o Lower(call.arg) \o sql_close_like
             \o sql_order_created \o tail
      [] call.method = "get_sample_data" ->
           sql_select_all \o call.arg \o tail

\* The caller's value as it would read inside a statement.
UserText(call) ==
    CASE call.method \in {"get_tenders_by_location", "search_by_organization"} ->
           Lower(call.arg)
      [] call.method \in {"get_recent_tenders", "get_high_value_tenders"} ->
           Digits(call.arg)
      [] call.method = "get_sample_data" -> call.arg
      [] OTHER -> Digits(call.limit)

\* The calls a caller can make of these methods.
HelperCalls ==
    { [method |-> "get_construction_tenders", arg |-> None, limit |-> HelperLimit] }
      \cup { [method |-> m, arg |-> a, limit |-> HelperLimit] :
               m \in {"get_tenders_by_location", "search_by_organization"},
               a \in {loc_Tartu, loc_injection} }
      \cup { [method |-> "get_recent_tenders", arg |-> d, limit |-> HelperLimit] :
               d \in {7, DefaultRecentDays} }
      \cup { [method |-> "get_high_value_tenders", arg |-> v, limit |-> HelperLimit] :
               v \in (MinValues \ {0}) \cup {DefaultHighValue} }
      \cup { [method |-> "get_sample_data", arg |-> tbl_estonian_tenders,
              limit |-> SampleLimit] }

\* The positional arguments of the call that reaches the database: the
\* statement text alone, no bind values.
HelperArgs(call) == << HelperQuery(call) >>

\* The TenderSearchAgent methods return execute_query's rows, or an empty
\* DataFrame after any exception; get_sample_data calls pd.read_sql itself
\* and catches nothing.
QueryHelper(call, read_sql) ==
    IF call.method = "get_sample_data"
    THEN IF read_sql.raised THEN read_sql ELSE Return(DataFrame(read_sql.value))
    ELSE LET r == execute_query(HelperArgs(call), read_sql)
         IN  IF r.raised THEN Return(DataFrame(<<>>)) ELSE Return(DataFrame(r.value))

\* ------------------------------------------------- the direct SQL box
\* What a user can type into the chat page's SQL box.
sql_select_one == <<"S","E","L","E","C","T"," ","1">>
sql_delete == <<"D","E","L","E","T","E"," ","F","R","O","M"," ","e","s","t","o","n","i","a","n","_","t","e","n","d","e","r","s">>
DirectSqlTexts == { <<>>, <<Space>>, sql_select_one, sql_delete }

\* SQLChatAssistant.execute_direct_sql(sql_query): the text is the statement.
execute_direct_sql(sql_query, read_sql) ==
    LET r == execute_query(<< sql_query >>, read_sql)
    IN  IF r.raised
        THEN [success |-> FALSE, data |-> None, query |-> Text(sql_query),
              error |-> PyStr(StrOfException(r.exc))]
        ELSE [success |-> TRUE, data |-> DataFrame(r.value), query |-> Text(sql_query),
              error |-> None]

\* ------------------------------------------------------------------ Home.py
txt_in == <<" ","i","n"," ">>
txt_value_over == <<" ","w","i","t","h"," ","v","a","l","u","e"," ","o","v","e","r"," ">>
txt_euros == <<" ","e","u","r","o","s">>
txt_7 == <<"f","r","o","m"," ","l","a","s","t"," ","7"," ","d","a","y","s">>
txt_30 == <<"f","r","o","m"," ","l","a","s","t"," ","3","0"," ","d","a","y","s">>
txt_90 == <<"f","r","o","m"," ","l","a","s","t"," ","9","0"," ","d","a","y","s">>

time_mapping(time_filter) ==
    CASE time_filter = "Last 7 days" -> txt_7
      [] time_filter = "Last 30 days" -> txt_30
      [] time_filter = "Last 90 days" -> txt_90

\* The clauses appended with the value clause before the location clause.
enhanced_query_ValueFirst(query, location, value, time) ==
    LET q1 == IF value > 0
              THEN query \o txt_value_over \o Digits(value) \o txt_euros ELSE query
        q2 == IF location # <<>> THEN q1 \o txt_in \o location ELSE q1
    IN  IF time # "All time" THEN q2 \o <<Space>> \o time_mapping(time) ELSE q2

\* Home.py:182..196, the text handed to search_tenders.
enhanced_query(query, location, value, time) ==
    LET q1 == IF location # <<>> THEN query \o txt_in \o location ELSE query
        q2 == IF value > 0
              THEN q1 \o txt_value_over \o Digits(value) \o txt_euros ELSE q1
    IN  IF time # "All time" THEN q2 \o <<Space>> \o time_mapping(time) ELSE q2

\* The chain with its first two branches exchanged.
FallbackMethod_LocationFirst(query) ==
    LET search_lower == Lower(query) IN
    IF AnyIn(LocationWords, search_lower) THEN "search_harjumaa_tenders"
    ELSE IF AnyIn(ConstructionWords, search_lower) THEN "search_construction_tenders"
    ELSE IF AnyIn(HighValueWords, search_lower) THEN "search_high_value_tenders"
    ELSE IF AnyIn(RecentWords, search_lower) THEN "search_recent_tenders"
    ELSE IF AnyIn(ItWords, search_lower) THEN "search_it_tenders"
    ELSE IF AnyIn(ActiveWords, search_lower) THEN "search_active_tenders"
    ELSE "search_by_keyword"

\* The chain testing `word in search_lower.split()`: whole tokens only.
FallbackMethod_ByToken(query) ==
    LET tokens == Split(Lower(query))
        AnyToken(words) == \E i \in 1..Len(tokens) : tokens[i] \in words
    IN
    IF AnyToken(ConstructionWords) THEN "search_construction_tenders"
    ELSE IF AnyToken(LocationWords) THEN "search_harjumaa_tenders"
    ELSE IF AnyToken(HighValueWords) THEN "search_high_value_tenders"
    ELSE IF AnyToken(RecentWords) THEN "search_recent_tenders"
    ELSE IF AnyToken(ItWords) THEN "search_it_tenders"
    ELSE IF AnyToken(ActiveWords) THEN "search_active_tenders"
    ELSE "search_by_keyword"

\* Home.py:224..238, the if/elif chain over search_query.lower().
FallbackMethod(query) ==
    LET search_lower == Lower(query) IN
    IF AnyIn(ConstructionWords, search_lower) THEN "search_construction_tenders"
    ELSE IF AnyIn(LocationWords, search_lower) THEN "search_harjumaa_tenders"
    ELSE IF AnyIn(HighValueWords, search_lower) THEN "search_high_value_tenders"
    ELSE IF AnyIn(RecentWords, search_lower) THEN "search_recent_tenders"
    ELSE IF AnyIn(ItWords, search_lower) THEN "search_it_tenders"
    ELSE IF AnyIn(ActiveWords, search_lower) THEN "search_active_tenders"
    ELSE "search_by_keyword"

\* The whole question taken as the keyword.
main_keyword_WholeQuery(query) == query

\* Home.py:240..241, keywords[0] if keywords else search_query.
main_keyword(query) ==
    LET keywords == Split(query)
    IN  IF keywords # <<>> THEN keywords[1] ELSE query

\* The calls with the methods' own defaults, whatever the sidebar holds.
FallbackKwargs_DefaultsOnly(method, query, value) ==
    CASE method = "search_high_value_tenders" ->
           [min_value |-> DefaultHighValue, limit |-> FallbackLimit]
      [] method = "search_recent_tenders" ->
           [days |-> DefaultRecentDays, limit |-> FallbackLimit]
      [] method = "search_by_keyword" ->
           [keyword |-> main_keyword(query), limit |-> FallbackLimit]
      [] OTHER -> [limit |-> FallbackLimit]

\* The keyword arguments of the call the chain makes. Of the sidebar's
\* filters only min_value is passed, and only to the high-value method.
FallbackKwargs(method, query, value) ==
    CASE method = "search_high_value_tenders" ->
           [min_value |-> IF value # 0 THEN value ELSE DefaultHighValue,
            limit |-> FallbackLimit]
      [] method = "search_recent_tenders" ->
           [days |-> DefaultRecentDays, limit |-> FallbackLimit]
      [] method = "search_by_keyword" ->
           [keyword |-> main_keyword(query), limit |-> FallbackLimit]
      [] OTHER -> [limit |-> FallbackLimit]

\* The method the fallback calls and its arguments.
FallbackCall(query, value) ==
    LET method == FallbackMethod(query)
    IN  [method |-> method, kwargs |-> FallbackKwargs(method, query, value)]

RECURSIVE Thousands(_)
\* The "," of the format spec: groups of three digits from the right.
Thousands(ds) ==
    IF Len(ds) <= 3 THEN ds
    ELSE Thousands(SubSeq(ds, 1, Len(ds) - 3)) \o <<",">>
           \o SubSeq(ds, Len(ds) - 2, Len(ds))

\* Home.py:258, the lambda applied to the estimated_value column (the euro
\* sign is written "EUR ").
FormatEstimatedValue(x) ==
    IF x # None /\ x.val > 0
    THEN Text(<<"EUR ">> \o Thousands(Digits(x.val)))
    ELSE PyStr("Not specified")

FormatRow(row) == [row EXCEPT !.estimated_value = FormatEstimatedValue(@)]

Message(level, text, detail) == [level |-> level, text |-> text, detail |-> detail]

BlankScreen == [messages |-> <<>>, table |-> None, csv |-> None]

\* Home.py:246..275, what is shown for the fallback's result.
RenderFallback(result) ==
    LET results == Get(result, "results") IN
    IF result.success /\ results # None /\ Len(results.val) > 0
    THEN LET df == [i \in 1..Len(results.val) |-> FormatRow(results.val[i])]
         IN  IF df # <<>>
             THEN [messages |-> << Message("success", "Found results using direct search",
                                           result.count) >>,
                   table |-> DataFrame(df), csv |-> DataFrame(df)]
             ELSE [messages |-> << Message("success", "Found results using direct search",
                                           result.count),
                                   Message("info", "No results found for your search.", None) >>,
                   table |-> None, csv |-> None]
    ELSE [messages |-> << Message("error", "Search failed",
                                  GetOr(result, "error", PyStr("No results found"))),
                          Message("info", "Try rephrasing your search", None) >>,
          table |-> None, csv |-> None]

\* Home.py:251: df = pd.DataFrame(result["results"]) wraps the DataFrame it
\* is given; whether the new frame shares the columns of the old one, so
\* that the assignment at 257 shows in result["results"] too, differs
\* between the versions of pandas (shared is that choice).
ResultAfterRender(result, shared) ==
    LET results == Get(result, "results") IN
    IF result.success /\ results # None /\ Len(results.val) > 0 /\ shared
    THEN [result EXCEPT !.results =
            DataFrame([i \in 1..Len(results.val) |-> FormatRow(results.val[i])])]
    ELSE result

\* -------------------------------------------------------------------- state
VARIABLES
    dbUrl,            \* DB_URL is set in the environment
    apiKey,           \* OPENAI_API_KEY is set in the environment
    hasSearchAgent,   \* 'search_agent' in st.session_state
    pc,               \* where the current run of Home.py is
    search_clicked,   \* the Search button, this run
    search_query,     \* the search box
    min_value,        \* sidebar: Minimum Value
    location_filter,  \* sidebar: Location
    time_filter,      \* sidebar: Time Period
    aiCalls,          \* calls of search_tenders in this run
    aiQuery,          \* the text passed to search_tenders
    aiPrompt,         \* the text search_tenders passed to agent.run
    aiResult,         \* how search_tenders ended
    fbCalls,          \* calls of a SimpleSearchAgent search method in this run
    fbCall,           \* the method called and its arguments
    dbArgs,           \* the arguments that method passed to execute_query
    fbResult,         \* the dict the method returned
    screen,           \* what this run has shown
    apiCall,          \* the method applied last, with its inputs
    apiResult         \* how it ended

\* The chat page (pages/0_Chat.py) in the same session.
VARIABLES
    chatPc,           \* where the current run of 0_Chat.py is
    chatEvent,        \* the interaction that started the run
    hasSqlAssistant,  \* 'sql_assistant' in st.session_state
    chat_history,     \* st.session_state.chat_history
    current_question, \* st.session_state.current_question, None when absent
    user_question,    \* the text in the question box
    input_default,    \* the value= the question box was last rendered with
    chatAsked,        \* times the text in the box was processed since it was entered
    sqlResult,        \* what Execute SQL returned in this run
    openHandles       \* the DatabaseUtil objects a page run made and left without close()

vars ==
    << dbUrl, apiKey, hasSearchAgent, pc, search_clicked, search_query,
       min_value, location_filter, time_filter, aiCalls, aiQuery, aiPrompt, aiResult,
       fbCalls, fbCall, dbArgs, fbResult, screen, apiCall, apiResult,
       chatPc, chatEvent, hasSqlAssistant, chat_history, current_question,
       user_question, input_default, chatAsked, sqlResult, openHandles >>

envVars == << dbUrl, apiKey >>
widgetVars == << search_clicked, search_query, min_value, location_filter, time_filter >>
aiVars == << aiCalls, aiQuery, aiPrompt, aiResult >>
fbVars == << fbCalls, fbCall, dbArgs, fbResult >>
apiVars == << apiCall, apiResult >>
chatVars ==
    << chatPc, chatEvent, hasSqlAssistant, chat_history, current_question,
       user_question, input_default, chatAsked, sqlResult >>
homeVars ==
    << hasSearchAgent, pc, widgetVars, aiVars, fbVars, screen, apiVars >>

Init ==
    /\ dbUrl \in BOOLEAN
    /\ apiKey \in BOOLEAN
    /\ hasSearchAgent = FALSE
    /\ pc = "idle"
    /\ search_clicked = FALSE
    /\ search_query = <<>>
    /\ min_value = 0
    /\ location_filter = <<>>
    /\ time_filter = "All time"
    /\ aiCalls = 0
    /\ aiQuery = None
    /\ aiPrompt = None
    /\ aiResult = None
    /\ fbCalls = 0
    /\ fbCall = None
    /\ dbArgs = None
    /\ fbResult = None
    /\ screen = BlankScreen
    /\ apiCall = None
    /\ apiResult = None
    /\ chatPc = "idle"
    /\ chatEvent = [kind |-> "none"]
    /\ hasSqlAssistant = FALSE
    /\ chat_history = <<>>
    /\ current_question = None
    /\ user_question = <<>>
    /\ input_default = <<>>
    /\ chatAsked = 0
    /\ sqlResult = None
    /\ openHandles = {}

Show(m) == screen' = [screen EXCEPT !.messages = Append(@, m)]

\* A fallback that remembers it has run: a later run answers from what the
\* earlier one left behind.
FallbackRun_Remembering(query, value, connect, read_sql) ==
    IF fbCalls > 0
    THEN [template |-> "search_by_keyword", raised |-> FALSE,
          envelope |-> FailureDict(OperationalError)]
    ELSE [template |-> FallbackMethod(query), raised |-> FALSE,
          envelope |-> FailureDict(TypeError)]

\* Home.py:220..244 as one step: SimpleSearchAgent() is built, the chain
\* picks and calls one method, and the result is the template called with
\* the dict it returned, or the exception that ended the block. The agent
\* is built anew and closed in every run; nothing of an earlier run is read.
FallbackRun(query, value, connect, read_sql) ==
    LET simple_agent == SimpleSearchAgentInit(dbUrl, connect)
        call == FallbackCall(query, value)
        r == SimpleSearch(call, read_sql)
    IN  IF simple_agent.raised
        THEN [template |-> "none", raised |-> TRUE, exc |-> simple_agent.exc]
        ELSE IF r.raised
        THEN [template |-> call.method, raised |-> TRUE, exc |-> r.exc]
        ELSE [template |-> call.method, raised |-> FALSE, envelope |-> r.value]

\* ------------------------------------------------------- a run of Home.py
\* The user changes widgets or presses a button: Streamlit reruns the script
\* from the top with the widgets' values.
UserInteracts ==
    /\ pc = "idle" /\ apiCall = None
    /\ search_clicked' \in BOOLEAN
    /\ search_query' \in Questions
    /\ min_value' \in MinValues
    /\ location_filter' \in Locations
    /\ time_filter' \in TimeFilters
    /\ pc' = "init"
    /\ UNCHANGED << chatVars, openHandles, envVars, hasSearchAgent, aiVars, fbVars, screen, apiVars >>

\* Home.py:51..58
InitSession ==
    /\ pc = "init"
    /\ IF hasSearchAgent
       THEN /\ pc' = "sidebar"
            /\ UNCHANGED << hasSearchAgent, screen >>
       ELSE \E llm \in ChatOpenAIRuns(apiKey), c1 \in ConnectRuns, c2 \in ConnectRuns :
              LET agent == TenderSearchAgentInit(dbUrl, llm, c1)
                  util == DatabaseUtilInit(dbUrl, c2)
              IN  IF agent.raised
                  THEN /\ Show(Message("error", "Failed to initialize application",
                                       PyStr(StrOfException(agent.exc))))
                       /\ pc' = "stopped"
                       /\ UNCHANGED hasSearchAgent
                  ELSE IF util.raised
                  THEN /\ hasSearchAgent' = TRUE
                       /\ Show(Message("error", "Failed to initialize application",
                                       PyStr(StrOfException(util.exc))))
                       /\ pc' = "stopped"
                  ELSE /\ hasSearchAgent' = TRUE
                       /\ pc' = "sidebar"
                       /\ UNCHANGED screen
    /\ UNCHANGED << chatVars, openHandles, envVars, widgetVars, aiVars, fbVars, apiVars >>

\* Home.py:69..113, the sidebar's statistics.
Sidebar ==
    /\ pc = "sidebar"
    /\ \E read_sql \in { Return(<<>>), Raise(OperationalError) } :
         LET stats == get_tender_statistics(read_sql)
         IN  Show(Message("metric", "Total Tenders",
                          GetOr(stats, "total_tenders", PyInt(0))))
    /\ pc' = "process"
    /\ UNCHANGED << chatVars, openHandles, envVars, hasSearchAgent, widgetVars, aiVars, fbVars, apiVars >>

\* Home.py:175..200, the search is processed: the AI search is tried.
ProcessSearch ==
    /\ pc = "process"
    /\ search_clicked /\ StripNonEmpty(search_query)
    /\ \E run \in AgentRuns(apiKey) :
         LET q == enhanced_query(search_query, location_filter, min_value, time_filter)
         IN  /\ aiQuery' = Text(q)
             /\ aiPrompt' = Text(agent_prompt(q, AiLimit))
             /\ aiResult' = search_tenders(q, AiLimit, run)
    /\ aiCalls' = aiCalls + 1
    /\ pc' = "ai_done"
    /\ UNCHANGED << chatVars, openHandles, envVars, hasSearchAgent, widgetVars, fbVars, screen, apiVars >>

\* Home.py:175 with the condition false: nothing is searched.
SkipSearch ==
    /\ pc = "process"
    /\ ~(search_clicked /\ StripNonEmpty(search_query))
    /\ pc' = "footer"
    /\ UNCHANGED << chatVars, openHandles, envVars, hasSearchAgent, widgetVars, aiVars, fbVars, screen, apiVars >>

\* Home.py:202..214: does the AI result stand?
AiResultStands ==
    /\ ~aiResult.raised
    /\ aiResult.value.success
    /\ Truthy(Get(aiResult.value, "results"))

\* Home.py:202..212
ShowAiResult ==
    /\ pc = "ai_done"
    /\ AiResultStands
    /\ Show(Message("success", "AI Search completed successfully", aiResult.value.results))
    /\ pc' = "footer"
    /\ UNCHANGED << chatVars, openHandles, envVars, hasSearchAgent, widgetVars, aiVars, fbVars, apiVars >>

\* Home.py:213..218: the raise is caught and the fallback entered.
EnterFallback ==
    /\ pc = "ai_done"
    /\ ~AiResultStands
    /\ Show(Message("warning", "AI search unavailable, using direct database search", None))
    /\ pc' = "fallback"
    /\ UNCHANGED << chatVars, openHandles, envVars, hasSearchAgent, widgetVars, aiVars, fbVars, apiVars >>

\* Home.py:220..244 and the outer except of 277..278. simple_agent.close()
\* (244) is reached when the method called returned; an exception on the
\* way leaves the agent's DatabaseUtil unclosed.
Fallback ==
    /\ pc = "fallback"
    /\ LET call == FallbackCall(search_query, min_value) IN
       \E connect \in ConnectRuns, read_sql \in PageReadSqlRuns :
         LET simple_agent == SimpleSearchAgentInit(dbUrl, connect)
             r == SimpleSearch(call, read_sql)
         IN  IF simple_agent.raised
             THEN /\ Show(Message("error", "An error occurred during search",
                                  PyStr(StrOfException(simple_agent.exc))))
                  /\ pc' = "footer"
                  /\ UNCHANGED << fbVars, openHandles >>
             ELSE /\ fbCalls' = fbCalls + 1
                  /\ fbCall' = call
                  /\ dbArgs' = QueryArgs(call)
                  /\ IF r.raised
                     THEN /\ Show(Message("error", "An error occurred during search",
                                          PyStr(StrOfException(r.exc))))
                          /\ pc' = "footer"
                          /\ openHandles' = openHandles \cup {"simple_agent"}
                          /\ UNCHANGED fbResult
                     ELSE /\ fbResult' = r.value
                          /\ pc' = "render"
                          /\ UNCHANGED << screen, openHandles >>
    /\ UNCHANGED << chatVars, envVars, hasSearchAgent, widgetVars, aiVars, apiVars >>

\* Home.py:246..275
Render ==
    /\ pc = "render"
    /\ LET v == RenderFallback(fbResult)
       IN  screen' = [messages |-> screen.messages \o v.messages,
                      table |-> v.table, csv |-> v.csv]
    /\ pc' = "footer"
    /\ UNCHANGED << chatVars, openHandles, envVars, hasSearchAgent, widgetVars, aiVars, fbVars, apiVars >>

\* Home.py:280..297
Footer ==
    /\ pc = "footer"
    /\ IF ~search_clicked \/ ~StripNonEmpty(search_query)
       THEN Show(Message("info", "Ready to search!", None))
       ELSE UNCHANGED screen
    /\ pc' = "done"
    /\ UNCHANGED << chatVars, openHandles, envVars, hasSearchAgent, widgetVars, aiVars, fbVars, apiVars >>

\* The script has ended (or st.stop() ended it): the page waits for the next
\* interaction, and the run's locals and output are gone when it comes.
ScriptEnds ==
    /\ pc \in {"done", "stopped"}
    /\ search_clicked' = FALSE
    /\ search_query' = <<>>
    /\ min_value' = 0
    /\ location_filter' = <<>>
    /\ time_filter' = "All time"
    /\ aiCalls' = 0 /\ aiQuery' = None /\ aiPrompt' = None /\ aiResult' = None
    /\ fbCalls' = 0 /\ fbCall' = None /\ dbArgs' = None /\ fbResult' = None
    /\ screen' = BlankScreen
    /\ pc' = "idle"
    /\ UNCHANGED << chatVars, openHandles, envVars, hasSearchAgent, apiVars >>

\* One of the classes is constructed outside a page run (test_app.py, the
\* __main__ blocks); engines counts the engines created on the way.
CallConstructor ==
    /\ pc = "idle" /\ apiCall = None
    /\ \E cls \in Classes, llm \in ChatOpenAIRuns(apiKey), connect \in ConnectRuns :
         /\ apiCall' = [fn |-> "construct", cls |-> cls,
                        engines |-> EnginesCreated(cls, dbUrl, llm, connect)]
         /\ apiResult' = Construct(cls, dbUrl, llm, connect)
    /\ UNCHANGED << chatVars, openHandles, envVars, hasSearchAgent, pc, widgetVars, aiVars, fbVars, screen >>

\* The call is over.
CallEnds ==
    /\ apiCall # None
    /\ apiCall' = None
    /\ apiResult' = None
    /\ screen' = BlankScreen
    /\ fbCalls' = 0
    /\ UNCHANGED << chatVars, openHandles, envVars, hasSearchAgent, pc, widgetVars, aiVars, fbCall, dbArgs,
                    fbResult >>

Next ==
    \/ UserInteracts
    \/ ScriptEnds
    \/ CallConstructor
    \/ CallEnds
    \/ InitSession
    \/ Sidebar
    \/ ProcessSearch
    \/ SkipSearch
    \/ ShowAiResult
    \/ EnterFallback
    \/ Fallback
    \/ Render
    \/ Footer

Spec == Init /\ [][Next]_vars

\* ------------------------------------------- the methods, called directly
\* The calls a caller can make of the SimpleSearchAgent methods.
SimpleCalls ==
    { [method |-> m, kwargs |-> [limit |-> FallbackLimit]] :
        m \in { "search_construction_tenders", "search_harjumaa_tenders",
                "search_it_tenders", "search_active_tenders" } }
      \cup { [method |-> "search_high_value_tenders",
              kwargs |-> [min_value |-> v, limit |-> FallbackLimit]] :
                v \in (MinValues \ {0}) \cup {DefaultHighValue} }
      \cup { [method |-> "search_recent_tenders",
              kwargs |-> [days |-> DefaultRecentDays, limit |-> FallbackLimit]] }
      \cup { [method |-> "search_by_keyword",
              kwargs |-> [keyword |-> k, limit |-> FallbackLimit]] : k \in Vocabulary }

\* The dicts the return statements of simple_search.py build.
SimpleEnvelopes ==
    { SuccessEnvelope(c, rows) : c \in SimpleCalls, rows \in RowSeqs }
      \cup { FailureDict(e) :
               e \in { TypeError, OperationalError, ProgrammingError } }

\* search_tenders is called with a question.
CallSearchTenders ==
    /\ pc = "idle" /\ apiCall = None
    /\ \E q \in Questions, run \in AgentRuns(apiKey) :
         /\ apiCall' = [fn |-> "search_tenders", query |-> q, agent_called |-> TRUE,
                        run |-> run]
         /\ apiResult' = search_tenders(q, AiLimit, run)
    /\ UNCHANGED << chatVars, openHandles, envVars, hasSearchAgent, pc, widgetVars, aiVars, fbVars, screen >>

\* chat_with_database is called with a question; the agent runs once the
\* schema was read.
CallChatWithDatabase ==
    /\ pc = "idle" /\ apiCall = None
    /\ \E q \in Questions, schema \in ConnectRuns, run \in AgentRuns(apiKey) :
         /\ apiCall' = [fn |-> "chat_with_database", query |-> q,
                        agent_called |-> ~schema.raised, run |-> run]
         /\ apiResult' = chat_with_database(q, schema, run)
    /\ UNCHANGED << chatVars, openHandles, envVars, hasSearchAgent, pc, widgetVars, aiVars, fbVars, screen >>

\* A SimpleSearchAgent search method is called; database is what the
\* database would answer to the statement, exec how the method's call of
\* execute_query ended.
CallSimpleSearch ==
    /\ pc = "idle" /\ apiCall = None
    /\ \E call \in SimpleCalls, read_sql \in ReadSqlRuns :
         /\ apiCall' = [fn |-> "SimpleSearch", call |-> call, database |-> read_sql,
                        exec |-> execute_query(QueryArgs(call), read_sql)]
         /\ apiResult' = SimpleSearch(call, read_sql)
    /\ UNCHANGED << chatVars, openHandles, envVars, hasSearchAgent, pc, widgetVars, aiVars, fbVars, screen >>

\* One of the methods that build their statement as an f-string is called.
CallQueryHelper ==
    /\ pc = "idle" /\ apiCall = None
    /\ \E call \in HelperCalls, read_sql \in ReadSqlRuns :
         /\ apiCall' = [fn |-> "QueryHelper", call |-> call, sent |-> HelperArgs(call)]
         /\ apiResult' = QueryHelper(call, read_sql)
    /\ UNCHANGED << chatVars, openHandles, envVars, hasSearchAgent, pc, widgetVars, aiVars, fbVars, screen >>

\* 0_Chat.py:154..185: Execute SQL is pressed with sql_query in the box;
\* sent is what reached execute_query.
CallExecuteDirectSql ==
    /\ pc = "idle" /\ apiCall = None
    /\ \E sql_query \in DirectSqlTexts, read_sql \in ReadSqlRuns :
         IF StripNonEmpty(sql_query)
         THEN /\ apiCall' = [fn |-> "execute_direct_sql", sql_query |-> sql_query,
                             sent |-> << sql_query >>]
              /\ apiResult' = Return(execute_direct_sql(sql_query, read_sql))
         ELSE /\ apiCall' = [fn |-> "execute_direct_sql", sql_query |-> sql_query,
                             sent |-> << >>]
              /\ apiResult' = Return(None)
    /\ UNCHANGED << chatVars, openHandles, envVars, hasSearchAgent, pc, widgetVars, aiVars, fbVars, screen >>

\* The fallback block is run for a request; database is what the database
\* answers while it is left unchanged.
CallFallbackDispatch ==
    /\ pc = "idle" /\ apiCall = None
    /\ \E q \in { x \in Questions : StripNonEmpty(x) }, v \in MinValues,
          connect \in ConnectRuns, read_sql \in PageReadSqlRuns :
         /\ apiCall' = [fn |-> "fallback", query |-> q, min_value |-> v,
                        connect |-> connect, database |-> read_sql,
                        runs |-> << FallbackRun(q, v, connect, read_sql) >>]
         /\ fbCalls' = 1
    /\ apiResult' = None
    /\ UNCHANGED << chatVars, openHandles, envVars, hasSearchAgent, pc, widgetVars, aiVars, fbCall, dbArgs,
                    fbResult, screen >>

\* Home.py:124..135 and 220..244: the query of a predefined search button
\* is submitted and the fallback block runs for it.
CallPredefinedSearch ==
    /\ pc = "idle" /\ apiCall = None
    /\ \E i \in 1..Len(get_predefined_searches), v \in MinValues,
          connect \in ConnectRuns, read_sql \in PageReadSqlRuns :
         LET search == get_predefined_searches[i]
         IN  apiCall' = [fn |-> "predefined", title |-> search.title,
                         query |-> search.query, min_value |-> v,
                         runs |-> << FallbackRun(search.query, v, connect, read_sql) >>]
    /\ fbCalls' = 1
    /\ apiResult' = None
    /\ UNCHANGED << chatVars, openHandles, envVars, hasSearchAgent, pc, widgetVars, aiVars, fbCall, dbArgs,
                    fbResult, screen >>

\* The same request is run a second time against the same database.
RepeatFallbackDispatch ==
    /\ apiCall # None /\ apiCall.fn = "fallback" /\ Len(apiCall.runs) = 1
    /\ apiCall' = [apiCall EXCEPT !.runs =
                     Append(@, FallbackRun(apiCall.query, apiCall.min_value,
                                           apiCall.connect, apiCall.database))]
    /\ fbCalls' = 2
    /\ UNCHANGED << chatVars, openHandles, envVars, hasSearchAgent, pc, widgetVars, aiVars, fbCall, dbArgs,
                    fbResult, screen, apiResult >>

\* Home.py:246..275 applied to a dict of the shape the methods return.
RenderEnvelope ==
    /\ pc = "idle" /\ apiCall = None
    /\ \E result \in SimpleEnvelopes, shared \in BOOLEAN :
         /\ apiCall' = [fn |-> "RenderFallback", result |-> result,
                        result_after |-> ResultAfterRender(result, shared)]
         /\ screen' = RenderFallback(result)
    /\ apiResult' = None
    /\ UNCHANGED << chatVars, openHandles, envVars, hasSearchAgent, pc, widgetVars, aiVars, fbVars >>

ApiNext ==
    \/ CallConstructor
    \/ CallSearchTenders
    \/ CallChatWithDatabase
    \/ CallSimpleSearch
    \/ CallQueryHelper
    \/ CallExecuteDirectSql
    \/ CallFallbackDispatch
    \/ CallPredefinedSearch
    \/ RepeatFallbackDispatch
    \/ RenderEnvelope
    \/ CallEnds

ApiSpec == Init /\ [][ApiNext]_vars

\* ----------------------------------------------------- a run of 0_Chat.py
\* The most entries the conversation may hold when an interaction starts a
\* run that can add to it, and the most times one text may have been
\* processed when an interaction starts a run that can process it again.
MaxHistory == 4
MaxAsked == 3

\* 0_Chat.py:69..75
sample_questions ==
    <<
       <<"S","h","o","w"," ","m","e"," ","c","o","n","s","t","r","u","c","t","i","o","n"," ","t","e","n","d","e","r","s">>,
       <<"T","e","n","d","e","r","s"," ","i","n"," ","H","a","r","j","u","m","a","a">>,
       <<"W","h","a","t"," ","a","r","e"," ","t","h","e"," ","m","o","s","t"," ","r","e","c","e","n","t"," ","t","e","n","d","e","r","s","?">>,
       <<"S","h","o","w"," ","m","e"," ","t","e","n","d","e","r","s"," ","w","i","t","h"," ","h","i","g","h","e","s","t"," ","v","a","l","u","e">>,
       <<"W","h","i","c","h"," ","o","r","g","a","n","i","z","a","t","i","o","n","s"," ","h","a","v","e"," ","t","h","e"," ","m","o","s","t"," ","t","e","n","d","e","r","s","?">> >>

\* What the user can type into the question box.
ChatTexts == { <<>>, <<Space>>, w_tenders, q_show_me_IT_tenders }

\* What inspector.get_table_names() does (db_util.py:31..33).
TableNamesRuns ==
    { Return(<<>>), Return(<< tbl_estonian_tenders >>), Raise(OperationalError) }

\* 0_Chat.py:44: db_util.get_sample_data(tables[0], 3)
SidebarSampleLimit == 3

\* 0_Chat.py:34..49: TRUE when the try block made a DatabaseUtil and left it
\* before db_util.close() (47): get_table_names or get_sample_data raised.
SidebarLeavesOpen(db_util, tables, sample) ==
    IF db_util.raised THEN FALSE
    ELSE IF tables.raised THEN TRUE
    ELSE IF tables.value = <<>> THEN FALSE
    ELSE QueryHelper([method |-> "get_sample_data", arg |-> tables.value[1],
                      limit |-> SidebarSampleLimit], sample).raised

\* The user does something on the page and Streamlit reruns the script from
\* the top: opens the page, changes the text of the question box, presses
\* Search, a sample question, Execute SQL, or Clear Chat History (shown only
\* while the history is not empty). Widgets exist only after a run that got
\* past line 27.
ChatUserInteracts ==
    /\ chatPc = "idle"
    /\ \/ /\ chatEvent.kind = "none"
          /\ chatEvent' = [kind |-> "load"]
          /\ UNCHANGED << user_question, chatAsked >>
       \/ /\ chatEvent.kind # "none"
          /\ Len(chat_history) + 2 <= MaxHistory
          /\ \E t \in ChatTexts \ {user_question} : user_question' = t
          /\ chatEvent' = [kind |-> "type"]
          /\ chatAsked' = 0
       \/ /\ chatEvent.kind # "none"
          /\ Len(chat_history) + 2 <= MaxHistory
          /\ chatEvent' = [kind |-> "search"]
          /\ chatAsked' = 0
          /\ UNCHANGED user_question
       \/ /\ chatEvent.kind # "none"
          /\ Len(chat_history) + 2 <= MaxHistory /\ chatAsked < MaxAsked
          /\ \E i \in 1..Len(sample_questions) : chatEvent' = [kind |-> "sample", i |-> i]
          /\ UNCHANGED << user_question, chatAsked >>
       \/ /\ chatEvent.kind # "none"
          /\ Len(chat_history) + 2 <= MaxHistory /\ chatAsked < MaxAsked
          /\ chatEvent' = [kind |-> "sql"]
          /\ UNCHANGED << user_question, chatAsked >>
       \/ /\ chatEvent.kind # "none"
          /\ Len(chat_history) > 0 /\ chatAsked < MaxAsked
          /\ chatEvent' = [kind |-> "clear"]
          /\ UNCHANGED << user_question, chatAsked >>
    /\ chatPc' = "init"
    /\ sqlResult' = None
    /\ UNCHANGED << hasSqlAssistant, chat_history, current_question, input_default,
                    openHandles, envVars, homeVars >>

\* 0_Chat.py:23..27: chat_history is made on the first run, and the
\* assistant is built when the session has none; nothing catches an
\* exception of get_sql_chat_assistant(), which ends the run.
ChatInit ==
    /\ chatPc = "init"
    /\ IF hasSqlAssistant
       THEN /\ chatPc' = "sidebar"
            /\ UNCHANGED << hasSqlAssistant, chatEvent >>
       ELSE \E llm \in ChatOpenAIRuns(apiKey), connect \in ConnectRuns :
              IF SQLChatAssistantInit(dbUrl, llm, connect).raised
              THEN /\ chatPc' = "idle"
                   /\ chatEvent' = [kind |-> "none"]
                   /\ UNCHANGED hasSqlAssistant
              ELSE /\ hasSqlAssistant' = TRUE
                   /\ chatPc' = "sidebar"
                   /\ UNCHANGED chatEvent
    /\ UNCHANGED << chat_history, current_question, user_question, input_default,
                    chatAsked, sqlResult, openHandles, envVars, homeVars >>

\* 0_Chat.py:30..58, the sidebar: a DatabaseUtil is made, asked for the
\* tables and a sample of the first one, and closed at the end of the try
\* block.
ChatSidebar ==
    /\ chatPc = "sidebar"
    /\ \E connect \in ConnectRuns, tables \in TableNamesRuns, sample \in PageReadSqlRuns :
         openHandles' =
           IF SidebarLeavesOpen(DatabaseUtilInit(dbUrl, connect), tables, sample)
           THEN openHandles \cup {"chat_sidebar"}
           ELSE openHandles
    /\ chatPc' = "input"
    /\ UNCHANGED << chatEvent, hasSqlAssistant, chat_history, current_question,
                    user_question, input_default, chatAsked, sqlResult, envVars,
                    homeVars >>

\* 0_Chat.py:77..90: a pressed sample button stores its question, and the
\* question box is rendered with value=current_question or ''. The box keeps
\* the text it holds from run to run; whether a changed value= makes
\* Streamlit replace that text depends on how the installed version
\* identifies a keyed widget (by key alone, or by all its arguments).
ChatInput ==
    /\ chatPc = "input"
    /\ LET cq == IF chatEvent.kind = "sample"
                 THEN Text(sample_questions[chatEvent.i])
                 ELSE current_question
           default == IF cq = None THEN <<>> ELSE cq.val
       IN  /\ current_question' = cq
           /\ input_default' = default
           /\ \E by_key \in BOOLEAN :
                IF ~by_key /\ default # input_default
                THEN /\ user_question' = default
                     /\ chatAsked' = 0
                ELSE UNCHANGED << user_question, chatAsked >>
    /\ chatPc' = "process"
    /\ UNCHANGED << chatEvent, hasSqlAssistant, chat_history, sqlResult, openHandles,
                    envVars, homeVars >>

\* 0_Chat.py:92..120: the question is processed when Search was pressed or
\* the box is not empty, and its text is not blank. The timestamps of the
\* entries are left out.
ChatProcess ==
    /\ chatPc = "process"
    /\ IF (chatEvent.kind = "search" \/ user_question # <<>>)
            /\ StripNonEmpty(user_question)
       THEN \E schema \in ConnectRuns, run \in AgentRuns(apiKey) :
              LET response == chat_with_database(user_question, schema, run)
                  asked == Append(chat_history,
                                  [type |-> "user", content |-> Text(user_question)])
              IN  /\ chat_history' =
                       IF response.raised THEN asked
                       ELSE Append(asked, [type |-> "assistant",
                                           content |-> response.value])
                  /\ chatAsked' = chatAsked + 1
                  /\ current_question' = None
       ELSE UNCHANGED << chat_history, chatAsked, current_question >>
    /\ chatPc' = "sql"
    /\ UNCHANGED << chatEvent, hasSqlAssistant, user_question, input_default, sqlResult,
                    openHandles, envVars, homeVars >>

\* 0_Chat.py:122..185: the history is displayed, and Execute SQL runs the
\* text of the SQL box when it is not blank.
ChatSql ==
    /\ chatPc = "sql"
    /\ IF chatEvent.kind = "sql"
       THEN \E sql_query \in DirectSqlTexts, read_sql \in PageReadSqlRuns :
              sqlResult' = IF StripNonEmpty(sql_query)
                           THEN execute_direct_sql(sql_query, read_sql)
                           ELSE None
       ELSE UNCHANGED sqlResult
    /\ chatPc' = "clear"
    /\ UNCHANGED << chatEvent, hasSqlAssistant, chat_history, current_question,
                    user_question, input_default, chatAsked, openHandles, envVars,
                    homeVars >>

\* 0_Chat.py:187..203: Clear Chat History empties the history and calls
\* st.rerun(), which starts the script again with the widgets as they are;
\* otherwise the footer is written and the run is complete.
ChatClear ==
    /\ chatPc = "clear"
    /\ IF Len(chat_history) > 0 /\ chatEvent.kind = "clear"
       THEN /\ chat_history' = <<>>
            /\ chatEvent' = [kind |-> "rerun"]
            /\ chatPc' = "init"
       ELSE /\ chatPc' = "idle"
            /\ UNCHANGED << chat_history, chatEvent >>
    /\ UNCHANGED << hasSqlAssistant, current_question, user_question, input_default,
                    chatAsked, sqlResult, openHandles, envVars, homeVars >>

ChatNext ==
    \/ ChatUserInteracts
    \/ ChatInit
    \/ ChatSidebar
    \/ ChatInput
    \/ ChatProcess
    \/ ChatSql
    \/ ChatClear

ChatSpec == Init /\ [][ChatNext]_vars

\* ------------------------------------------------------------- properties
\* The search of this run was submitted: Search pressed on a non-blank box.
Submitted == search_clicked /\ StripNonEmpty(search_query)

\* A SimpleSearchAgent method was called in this run.
FallbackRan == fbCall # None

\* Some keyword of the k-th branch occurs in the lower-cased question.
BranchMatches(k) == AnyIn(TriggerWords(MethodOrder[k]), Lower(search_query))

\* The whitespace-separated tokens of the lower-cased question.
LowerTokens ==
    LET t == Split(Lower(search_query)) IN { t[i] : i \in 1..Len(t) }

\* The first whitespace-separated token of s (s not blank).
FirstToken(s) ==
    LET first == CHOOSE i \in 1..Len(s) :
                    s[i] # Space /\ \A j \in 1..(i - 1) : s[j] = Space
        after == { i \in first..Len(s) : s[i] = Space } \cup { Len(s) + 1 }
        stop == CHOOSE i \in after : \A j \in after : i <= j
    IN  SubSeq(s, first, stop - 1)

C3_WholeTokenOnly ==
    (FallbackRan /\ fbCall.method # "search_by_keyword")
      => \E w \in TriggerWords(fbCall.method) : w \in LowerTokens

\* C3 as amended: a template's trigger matches when one of its keywords
\* occurs anywhere in the lower-cased question, also inside a longer word;
\* the generic template is left only to questions holding no keyword at all.
C3_SubstringMatch ==
    FallbackRan =>
      /\ fbCall.method # "search_by_keyword"
           => AnyIn(TriggerWords(fbCall.method), Lower(search_query))
      /\ (\E k \in 1..6 : BranchMatches(k)) => fbCall.method # "search_by_keyword"

\* C3 witness: the IT template ran on 'it' inside a longer word, no token of
\* the question being an IT keyword.
C3_Witness ==
    /\ FallbackRan
    /\ fbCall.method = "search_it_tenders"
    /\ LowerTokens \cap ItWords = {}
    /\ Contains(search_query, w_with)

\* The fallback path was entered in this run (Home.py:218).
FallbackEntered ==
    \E i \in 1..Len(screen.messages) : screen.messages[i].level = "warning"

\* The days of a sidebar time period.
DaysOf(period) ==
    CASE period = "Last 7 days" -> 7
      [] period = "Last 30 days" -> 30
      [] period = "Last 90 days" -> 90

\* The call of a SimpleSearchAgent method carries the sidebar's filters.
FiltersPassed ==
    /\ min_value > 0 =>
         ("min_value" \in DOMAIN fbCall.kwargs /\ fbCall.kwargs.min_value = min_value)
    /\ location_filter # <<>> =>
         ("location" \in DOMAIN fbCall.kwargs /\ fbCall.kwargs.location = location_filter)
    /\ time_filter # "All time" =>
         ("days" \in DOMAIN fbCall.kwargs /\ fbCall.kwargs.days = DaysOf(time_filter))

\* C2: in a finished search run the AI search was tried exactly once; the
\* fallback was entered exactly when that attempt raised, failed or came
\* back empty, and ran at most once; and it was given the raw question and
\* the filter values of the sidebar.
C2_AiOnceThenFallbackWithRequest ==
    (pc = "done" /\ Submitted) =>
      /\ aiCalls = 1
      /\ FallbackEntered <=> ~AiResultStands
      /\ fbCalls <= 1
      /\ FallbackRan =>
           /\ fbCall.method = "search_by_keyword"
                => fbCall.kwargs.keyword = FirstToken(search_query)
           /\ FiltersPassed

\* C4: search_tenders and chat_with_database never raise: when the agent
\* raised the envelope has success false, a null result and the exception's
\* message as error; when the agent returned it has success true and a
\* null error.
C4_AiCallNeverRaises ==
    (apiCall # None /\ apiCall.fn \in {"search_tenders", "chat_with_database"}) =>
      /\ ~apiResult.raised
      /\ LET env == apiResult.value
             answer == IF apiCall.fn = "search_tenders" THEN env.results ELSE env.answer
         IN  apiCall.agent_called =>
               IF apiCall.run.raised
               THEN /\ env.success = FALSE
                    /\ answer = None
                    /\ env.error = PyStr(apiCall.run.exc.msg)
               ELSE /\ env.success = TRUE
                    /\ env.error = None

\* C4 witness: the agent raised inside search_tenders and a failure
\* envelope came back.
C4_Witness ==
    /\ apiCall # None
    /\ apiCall.fn = "search_tenders"
    /\ apiCall.run.raised
    /\ ~apiResult.raised
    /\ apiResult.value.success = FALSE

\* C5: a SimpleSearchAgent search method returns normally whatever the
\* execution of its query did; when the execution failed the envelope has
\* success false, null results and the failure's own message as error.
C5_SimpleSearchNeverRaises ==
    (apiCall # None /\ apiCall.fn = "SimpleSearch") =>
      /\ ~apiResult.raised
      /\ apiCall.exec.raised =>
           /\ apiResult.value.success = FALSE
           /\ apiResult.value.results = None
           /\ apiResult.value.error = PyStr(apiCall.exec.exc.msg)

\* C5 witness: the execution failed and the method returned the failure
\* envelope.
C5_Witness ==
    /\ apiCall # None
    /\ apiCall.fn = "SimpleSearch"
    /\ apiCall.exec.raised
    /\ ~apiResult.raised
    /\ apiResult.value.success = FALSE

\* The number of rows an envelope holds, 0 when it holds none.
RowCount(env) ==
    LET r == Get(env, "results")
    IN  IF r # None /\ r.kind = "DataFrame" THEN Len(r.val) ELSE 0

\* C6: every envelope of the AI search and of the fallback methods has
\* rows and no error when success is true, an error and no rows when it is
\* false, and an integer count equal to the number of rows (0 without rows).
C6_EnvelopeInvariant ==
    (apiCall # None /\ apiCall.fn \in {"search_tenders", "SimpleSearch"}
       /\ ~apiResult.raised) =>
      LET env == apiResult.value IN
      /\ env.success => (Get(env, "results") # None /\ Get(env, "error") = None)
      /\ ~env.success => (Get(env, "error") # None /\ Get(env, "results") = None)
      /\ "count" \in DOMAIN env
      /\ env.count.kind = "int"
      /\ env.count.val = RowCount(env)

\* No keyword of any branch occurs in the lower-cased question.
NoTrigger == \A k \in 1..6 : ~BranchMatches(k)

\* C7: when no trigger keyword occurs in the question, the fallback calls
\* the generic keyword template, and the value bound to its three LIKE
\* holes, on title, description and organization_name, is the first
\* whitespace-separated token of the question (lower-cased, between %).
C7_GenericUsesFirstToken ==
    (FallbackRan /\ NoTrigger) =>
      /\ fbCall.method = "search_by_keyword"
      /\ fbCall.kwargs.keyword = FirstToken(search_query)
      /\ { dbArgs[1].where[i].lhs : i \in 1..Len(dbArgs[1].where) }
           = { "LOWER(title)", "LOWER(description)", "LOWER(organization_name)" }
      /\ \A i \in 1..Len(dbArgs[1].where) :
           /\ dbArgs[1].where[i].op = "LIKE"
           /\ dbArgs[1].where[i].rhs = "%s"
           /\ dbArgs[2][i] = Text(<<"%">> \o Lower(FirstToken(search_query)) \o <<"%">>)

\* C7 witness: the generic template was called for a question of two
\* words after a leading blank or with an upper-case first word.
C7_Witness ==
    /\ FallbackRan
    /\ NoTrigger
    /\ fbCall.method = "search_by_keyword"
    /\ fbCall.kwargs.keyword = w_Roads
    /\ Len(Split(search_query)) = 2

\* C8: a question with no keyword and a minimum value V > 0 makes the
\* fallback execute the generic template with a predicate
\* estimated_value >= V, and with a date predicate too when a time window
\* is set.
C8_GenericAppliesMinValue ==
    (FallbackRan /\ NoTrigger /\ min_value > 0) =>
      /\ \E i \in 1..Len(dbArgs[1].where) :
           /\ dbArgs[1].where[i].lhs = "estimated_value"
           /\ dbArgs[1].where[i].op = ">="
      /\ \E j \in 1..Len(dbArgs[2]) :
           dbArgs[2][j].kind = "int" /\ dbArgs[2][j].val = min_value
      /\ time_filter # "All time" =>
           \E i \in 1..Len(dbArgs[1].where) : dbArgs[1].where[i].lhs = "published_date"

StoppedForMissingKey ==
    /\ pc = "stopped"
    /\ \E i \in 1..Len(screen.messages) :
         /\ screen.messages[i].text = "Failed to initialize application"
         /\ screen.messages[i].detail = PyStr(MissingKeyError.msg)

\* C10: with the database configured and the agent's credential absent, a
\* submitted search is never kept from the fallback by the missing
\* credential.
C10_FallbackWithoutCredential ==
    (dbUrl /\ ~apiKey /\ Submitted) => ~StoppedForMissingKey

\* C11: without DB_URL, constructing DatabaseUtil, TenderSearchAgent,
\* SimpleSearchAgent or SQLChatAssistant raises the ValueError before any
\* engine is created, and every run of the Home page stops at its
\* initialization with the error shown: no AI search and no fallback is run.
C11_NoDbUrlHaltsStartup ==
    ~dbUrl =>
      /\ (apiCall # None /\ apiCall.fn = "construct") =>
           /\ apiResult.raised
           /\ apiResult.exc = ValueError
           /\ apiCall.engines = 0
      /\ pc \in {"idle", "init", "stopped"}
      /\ aiCalls = 0 /\ fbCalls = 0
      /\ pc = "stopped" =>
           \E i \in 1..Len(screen.messages) :
             /\ screen.messages[i].level = "error"
             /\ screen.messages[i].text = "Failed to initialize application"
             /\ screen.messages[i].detail = PyStr(ValueError.msg)

\* C11 witness: a submitted search stopped at initialization for want of
\* DB_URL.
C11_Witness ==
    /\ ~dbUrl
    /\ Submitted
    /\ pc = "stopped"

\* C12: no statement that reaches the database holds a caller's value in
\* its text: the statement of a method is the same for every value, and the
\* value travels as a bind parameter beside it.
C12_UserValuesAreBound ==
    /\ (apiCall # None /\ apiCall.fn = "SimpleSearch") =>
         \A c \in SimpleCalls :
           c.method = apiCall.call.method
             => QueryArgs(c)[1] = QueryArgs(apiCall.call)[1]
    /\ (apiCall # None /\ apiCall.fn = "QueryHelper") =>
         /\ ~Contains(apiCall.sent[1], UserText(apiCall.call))
         /\ \A c \in HelperCalls :
              c.method = apiCall.call.method => HelperQuery(c) = apiCall.sent[1]
         /\ Len(apiCall.sent) = 2

kw_select == <<"s","e","l","e","c","t">>

\* The statement text begins with the word SELECT, in any case.
IsSelect(stmt) == StripNonEmpty(stmt) /\ Lower(FirstToken(stmt)) = kw_select

\* C13: every statement text the application hands to the database, the
\* direct SQL box included, is a SELECT.
C13_OnlyReadsAreSent ==
    (apiCall # None /\ apiCall.fn \in {"QueryHelper", "execute_direct_sql"}) =>
      \A i \in 1..Len(apiCall.sent) : IsSelect(apiCall.sent[i])

NoFilters == min_value = 0 /\ location_filter = <<>> /\ time_filter = "All time"

\* The literals the IT template is said to match.
ItLiterals == { "'%it%'", "'%software%'", "'%tarkvara%'", "'%infotehnoloogia%'" }

\* C15: 'show me IT tenders' without filters runs the IT template; its
\* WHERE clause matches the title and the description against each of
\* 'it', 'software', 'tarkvara', 'infotehnoloogia'; its row limit is 20.
C15_ItTemplate ==
    (FallbackRan /\ search_query = q_show_me_IT_tenders /\ NoFilters) =>
      /\ fbCall.method = "search_it_tenders"
      /\ \A col \in {"LOWER(title)", "LOWER(description)"}, lit \in ItLiterals :
           \E i \in 1..Len(dbArgs[1].where) :
             dbArgs[1].where[i] = Pred(col, "LIKE", lit)
      /\ dbArgs[1].limit = "%s"
      /\ dbArgs[2] = << PyInt(20) >>

\* What C16 compares of a run of the fallback: the template, the success
\* flag and the row count (none for a run that ended in an exception).
RunSummary(run) ==
    IF run.raised
    THEN << run.template, "raised", run.exc >>
    ELSE << run.template, run.envelope.success, Get(run.envelope, "count"),
            RowCount(run.envelope) >>

MainMessages == SelectSeq(screen.messages, LAMBDA m : m.level # "metric")

\* C17: Search pressed on an empty or blank question with no filters always
\* ends the same way: nothing is searched, neither by the agent nor by the
\* fallback, and the page shows its 'Ready to search!' note and nothing else.
C17_BlankQuestionOutcome ==
    (pc = "done" /\ search_clicked /\ search_query \in {<<>>, <<Space>>} /\ NoFilters) =>
      /\ aiCalls = 0 /\ fbCalls = 0
      /\ screen.table = None /\ screen.csv = None
      /\ MainMessages = << Message("info", "Ready to search!", None) >>

\* C17 witness: a run ended after Search was pressed on a single blank.
C17_Witness ==
    /\ pc = "done"
    /\ search_clicked
    /\ search_query = << Space >>
    /\ NoFilters

\* C18: when the fallback calls the high-value template, the value bound to
\* the hole of estimated_value >= %s is the sidebar's minimum value when
\* that is above 0, and 100000 otherwise.
C18_HighValueThreshold ==
    (FallbackRan /\ fbCall.method = "search_high_value_tenders") =>
      LET threshold == IF min_value > 0 THEN min_value ELSE DefaultHighValue IN
      /\ fbCall.kwargs.min_value = threshold
      /\ dbArgs[1].where = << Pred("estimated_value", ">=", "%s") >>
      /\ dbArgs[2] = << PyInt(threshold), PyInt(FallbackLimit) >>

\* C18 witness: the high-value template was called with a minimum value set
\* in the sidebar.
C18_Witness ==
    /\ FallbackRan
    /\ fbCall.method = "search_high_value_tenders"
    /\ min_value = 50000

\* The call has a date predicate: a WHERE disjunct on published_date.
HasDatePredicate(stmt) ==
    \E i \in 1..Len(stmt.where) : stmt.where[i].lhs = "published_date"

\* C19: with a time window of N days selected, a fallback template that has
\* a date predicate is run with at most N days bound to it; a template
\* without one is run as it is without a window.
C19_TimeWindowNarrows ==
    (FallbackRan /\ time_filter # "All time") =>
      IF HasDatePredicate(dbArgs[1])
      THEN /\ dbArgs[2][1].kind = "int"
           /\ dbArgs[2][1].val <= DaysOf(time_filter)
      ELSE /\ "days" \notin DOMAIN fbCall.kwargs
           /\ dbArgs = QueryArgs(fbCall)

\* The statement a method runs, by the method's name.
TemplateOf(method) ==
    CASE method = "search_construction_tenders" -> ConstructionSql
      [] method = "search_harjumaa_tenders" -> HarjumaaSql
      [] method = "search_high_value_tenders" -> HighValueSql
      [] method = "search_recent_tenders" -> RecentSql
      [] method = "search_it_tenders" -> ItSql
      [] method = "search_active_tenders" -> ActiveSql
      [] method = "search_by_keyword" -> KeywordSql

\* C20: with a location filter set, the statement the fallback executes has
\* a LIKE condition on the location bound to that text, beside all the
\* predicates of the chosen template, which are kept.
C20_LocationConditionAdded ==
    (FallbackRan /\ location_filter # <<>>) =>
      LET stmt == dbArgs[1]
          own == TemplateOf(fbCall.method).where
      IN  /\ \A k \in 1..Len(own) : \E i \in 1..Len(stmt.where) : stmt.where[i] = own[k]
          /\ \E i \in 1..Len(stmt.where) :
                /\ stmt.where[i].lhs = "LOWER(location)"
                /\ stmt.where[i].op = "LIKE"
                /\ stmt.where[i].rhs = "%s"
          /\ \E j \in 1..Len(dbArgs[2]) :
                /\ dbArgs[2][j].kind = "text"
                /\ Contains(dbArgs[2][j].val, Lower(location_filter))

\* The clause a filter adds to the question, or nothing.
ClauseIf(active, clause) == IF active THEN clause ELSE <<>>

txt_from_last == <<" ","f","r","o","m"," ","l","a","s","t"," ">>
txt_days == <<" ","d","a","y","s">>

\* C21: once the AI search was tried, the text it was given is the raw
\* question, then ' in {location}' exactly when the location filter is
\* non-empty, then ' with value over {min_value} euros' exactly when
\* min_value > 0, then ' from last N days' exactly when a time window other
\* than all-time is selected (so the raw question alone when no filter is
\* active); and the text handed to the agent is that text followed by the
\* instruction block with the limit.
C21_AiTextIsQuestionPlusClauses ==
    aiCalls > 0 =>
      /\ aiQuery.val =
           search_query
           \o ClauseIf(location_filter # <<>>, txt_in \o location_filter)
           \o ClauseIf(min_value > 0,
                       txt_value_over \o Digits(min_value) \o txt_euros)
           \o (IF time_filter = "All time" THEN <<>>
               ELSE txt_from_last \o Digits(DaysOf(time_filter)) \o txt_days)
      /\ aiPrompt.val = txt_prompt_head \o aiQuery.val \o txt_prompt_limit
                          \o Digits(AiLimit) \o txt_prompt_tail
      /\ (location_filter = <<>> /\ min_value = 0 /\ time_filter = "All time")
           => aiQuery.val = search_query

C21_Witness ==
    /\ aiCalls > 0
    /\ location_filter # <<>> /\ min_value > 0 /\ time_filter = "Last 7 days"

\* C23: when the database answers the statement of a SimpleSearchAgent
\* search method with rows, the method returns success true with those rows
\* as results and their number as count; it returns success false only when
\* the database reported a failure.
C23_SuccessUnlessDatabaseFails ==
    (apiCall # None /\ apiCall.fn = "SimpleSearch") =>
      /\ ~apiResult.raised
      /\ ~apiCall.database.raised =>
           /\ apiResult.value.success
           /\ apiResult.value.results = DataFrame(apiCall.database.value)
           /\ apiResult.value.count = PyInt(Len(apiCall.database.value))
      /\ ~apiResult.value.success => apiCall.database.raised

\* The template the title of a predefined search button names.
NamedTemplate(title) ==
    CASE title = "Construction Tenders" -> "search_construction_tenders"
      [] title = "Tenders in Harjumaa" -> "search_harjumaa_tenders"
      [] title = "Recent Tenders" -> "search_recent_tenders"
      [] title = "High Value Tenders" -> "search_high_value_tenders"
      [] title = "IT Tenders" -> "search_it_tenders"
      [] title = "Active Tenders" -> "search_active_tenders"

\* C24: when the query of a predefined search button is submitted to the
\* fallback dispatch and a SimpleSearchAgent could be built, the method
\* called is the template the button names.
C24_PredefinedRunsNamedTemplate ==
    (apiCall # None /\ apiCall.fn = "predefined"
       /\ apiCall.runs[1].template # "none") =>
      apiCall.runs[1].template = NamedTemplate(apiCall.title)

\* C22: when a run of the chat page is over, no DatabaseUtil that the
\* sidebar made is left without its close() having been called, also when
\* get_table_names or get_sample_data failed in between.
C22_SidebarHandleClosed ==
    chatPc = "idle" => "chat_sidebar" \notin openHandles

\* C25: the text in the question box is processed (sent to the assistant
\* and appended to the history) at most once after it was entered; runs
\* started by Execute SQL, a sample button or Clear Chat History while the
\* box holds it do not process it again.
C25_QuestionProcessedOnce ==
    chatAsked <= 1

\* C26: when the page has settled after Clear Chat History (the run that
\* st.rerun() started is over), the conversation history is empty.
C26_ClearLeavesEmptyHistory ==
    (chatPc = "idle" /\ chatEvent.kind = "rerun") => chat_history = <<>>

\* The history is a sequence of pairs: a user entry, then the assistant
\* entry with the response to that question.
PairsOnly(h) ==
    /\ Len(h) % 2 = 0
    /\ \A i \in 1..Len(h) :
         IF i % 2 = 1
         THEN /\ h[i].type = "user"
              /\ h[i + 1].type = "assistant"
              /\ h[i + 1].content.question = h[i].content.val
         ELSE h[i].type = "assistant"

\* C27: after every completed run of the chat page the history consists of
\* user/assistant pairs: every user entry is followed at once by the
\* assistant entry whose response carries that question, so the length is
\* even and no user entry is left unanswered.
C27_HistoryIsPairs ==
    chatPc = "idle" => PairsOnly(chat_history)

C27_Witness ==
    /\ chatPc = "idle"
    /\ Len(chat_history) = 4
    /\ ~chat_history[2].content.success
    /\ chat_history[4].content.success

====
